---- MODULE Spec2Model ----
(***************************************************************************)
(* A model of the ledger web application (src/app/main.py, models.py).     *)
(*                                                                         *)
(* The state is the relational store (one sequence of rows per table, in   *)
(* insertion order, ids 1..n as the autoincrement primary key gives them), *)
(* the browser session and the response of the last request.  Every        *)
(* request handler of main.py is one action.                               *)
(*                                                                         *)
(* Text that the code parses or matches (amounts, dates, ids in the query  *)
(* string, notes, tags, keywords) is a sequence of one-character strings;  *)
(* text the code only stores or compares (roles, names, e-mails, types) is *)
(* a TLA+ string.  A date is the integer yyyymmdd, which orders as dates   *)
(* do.  NULL is the SQL NULL / Python None of a text column or parameter.  *)
(***************************************************************************)
EXTENDS Integers, Sequences, FiniteSets, TLC

VARIABLES organizations, users, accounts, categories, transactions, budgets,
          session, resp

vars == <<organizations, users, accounts, categories, transactions, budgets,
          session, resp>>

db == <<organizations, users, accounts, categories, transactions, budgets>>

(***************************************************************************)
(* Text                                                                    *)
(***************************************************************************)
NULL == <<"NULL">>

NoneInt == 0 - 1

Digits == <<"0", "1", "2", "3", "4", "5", "6", "7", "8", "9">>

AllDigits(s) == \A i \in 1..Len(s) : \E d \in 1..10 : Digits[d] = s[i]

RECURSIVE NatOf(_)
NatOf(s) == IF s = <<>> THEN 0
            ELSE 10 * NatOf(SubSeq(s, 1, Len(s) - 1))
                 + (CHOOSE d \in 1..10 : Digits[d] = s[Len(s)]) - 1

RECURSIVE Pow10(_)
Pow10(n) == IF n <= 0 THEN 1 ELSE 10 * Pow10(n - 1)

RECURSIVE NatText(_)
NatText(n) == IF n < 10 THEN <<Digits[n + 1]>>
              ELSE NatText(n \div 10) \o <<Digits[(n % 10) + 1]>>

\* str.lower() and SQL lower() on the letters A to Z.
Letters ==
    [upper |-> <<"A", "B", "C", "D", "E", "F", "G", "H", "I", "J", "K", "L", "M",
                 "N", "O", "P", "Q", "R", "S", "T", "U", "V", "W", "X", "Y", "Z">>,
     lower |-> <<"a", "b", "c", "d", "e", "f", "g", "h", "i", "j", "k", "l", "m",
                 "n", "o", "p", "q", "r", "s", "t", "u", "v", "w", "x", "y", "z">>]

LowerChar(c) == IF \E i \in 1..26 : Letters.upper[i] = c
                THEN Letters.lower[CHOOSE i \in 1..26 : Letters.upper[i] = c]
                ELSE c

Lower(s) == [i \in 1..Len(s) |-> LowerChar(s[i])]

Coalesce(x, d) == IF x = NULL THEN d ELSE x

\* Python truthiness of an optional text: None and "" are false.
Truthy(x) == x # NULL /\ x # <<>>

\* x or None
OrNone(x) == IF x = <<>> THEN NULL ELSE x

\* x or ""
OrEmpty(x) == IF x = NULL THEN <<>> ELSE x

\* SQL LIKE: % matches any run of characters, _ any one character.
RECURSIVE Like(_, _)
Like(s, p) ==
    IF p = <<>> THEN s = <<>>
    ELSE IF Head(p) = "%"
         THEN Like(s, Tail(p)) \/ (s # <<>> /\ Like(Tail(s), p))
    ELSE IF s = <<>> THEN FALSE
    ELSE (Head(p) = "_" \/ Head(p) = Head(s)) /\ Like(Tail(s), Tail(p))

\* int(text) on the digits-and-sign texts of a query string.
IntParse(s) ==
    LET body == IF s # <<>> /\ Head(s) \in {"-", "+"} THEN Tail(s) ELSE s
        neg  == s # <<>> /\ Head(s) = "-"
    IN  IF body # <<>> /\ AllDigits(body)
        THEN [ok |-> TRUE, value |-> IF neg THEN 0 - NatOf(body) ELSE NatOf(body)]
        ELSE [ok |-> FALSE, value |-> 0]

(***************************************************************************)
(* Money representation (main.py 56-65)                                    *)
(***************************************************************************)
IndexOf(s, c) == IF \E i \in 1..Len(s) : s[i] = c
                 THEN CHOOSE i \in 1..Len(s) : s[i] = c /\ \A j \in 1..(i - 1) : s[j] # c
                 ELSE 0

\* The text before the first c (all of it when there is none), and after it.
Before(s, c) == SubSeq(s, 1, IF IndexOf(s, c) = 0 THEN Len(s) ELSE IndexOf(s, c) - 1)

After(s, c) == IF IndexOf(s, c) = 0 THEN <<>> ELSE SubSeq(s, IndexOf(s, c) + 1, Len(s))


\* The context precision of the decimal module (decimal.getcontext().prec).
DecimalPrec == 28

DecimalValue(kind, neg, coef, exp) == [kind |-> kind, neg |-> neg, coef |-> coef, exp |-> exp]

\* digits [. digits] with the exponent read: the coefficient and the exponent.
DecimalParts(neg, ipart, fpart, hasExp, e) ==
    IF ~(AllDigits(ipart) /\ AllDigits(fpart) /\ Len(ipart) + Len(fpart) > 0)
    THEN DecimalValue("syntax", FALSE, 0, 0)
    ELSE IF hasExp /\ ~e.ok
    THEN DecimalValue("syntax", FALSE, 0, 0)
    ELSE DecimalValue("finite", neg, NatOf(ipart \o fpart),
                      (IF hasExp THEN e.value ELSE 0) - Len(fpart))

DecimalNumber(neg, mant, hasExp, expo) ==
    DecimalParts(neg, Before(mant, "."), After(mant, "."), hasExp, IntParse(expo))

DecimalUnsigned(neg, rest) ==
    IF rest \in {<<"i", "n", "f">>, <<"i", "n", "f", "i", "n", "i", "t", "y">>}
    THEN DecimalValue("inf", neg, 0, 0)
    ELSE IF Len(rest) >= 3 /\ SubSeq(rest, 1, 3) = <<"n", "a", "n">>
            /\ AllDigits(SubSeq(rest, 4, Len(rest)))
    THEN DecimalValue("nan", neg, 0, 0)
    ELSE IF Len(rest) >= 4 /\ SubSeq(rest, 1, 4) = <<"s", "n", "a", "n">>
            /\ AllDigits(SubSeq(rest, 5, Len(rest)))
    THEN DecimalValue("snan", neg, 0, 0)
    ELSE DecimalNumber(neg, Before(rest, "e"), IndexOf(rest, "e") # 0, After(rest, "e"))

DecimalSigned(s) ==
    IF s # <<>> /\ Head(s) \in {"-", "+"}
    THEN DecimalUnsigned(Head(s) = "-", Tail(s))
    ELSE DecimalUnsigned(FALSE, s)

\* Decimal(text): the numeric-string grammar of Python's decimal module over
\* these characters: [sign] digits [. digits] [e [sign] digits], [sign] inf,
\* [sign] infinity, [sign] nan [digits], [sign] snan [digits], letters in either
\* case.  kind is "finite" (value = sign * coef * 10^exp), "inf", "nan", "snan",
\* or "syntax" where the constructor raises InvalidOperation.
Decimal(text) == DecimalSigned(Lower(text))

\* Rounding coef / k to an integer, ROUND_HALF_EVEN (the context's rounding).
RoundHalfEven(coef, k) ==
    IF 2 * (coef % k) > k THEN (coef \div k) + 1
    ELSE IF 2 * (coef % k) = k THEN (coef \div k) + ((coef \div k) % 2)
    ELSE coef \div k

\* int((value * 100).quantize(Decimal("1"))) for a finite value.
QuantizeCents(neg, coef, shift) ==
    IF coef = 0 THEN 0
    ELSE IF shift >= 0 THEN (IF neg THEN 0 - coef * Pow10(shift) ELSE coef * Pow10(shift))
    ELSE IF neg THEN 0 - RoundHalfEven(coef, Pow10(0 - shift))
    ELSE RoundHalfEven(coef, Pow10(0 - shift))

Amount(kind, cents) == [kind |-> kind, cents |-> cents]

\* Line 61 on the value Decimal() returned.
CentsOf(d) ==
    CASE d.kind = "syntax" -> Amount("InvalidAmount", 0)
      [] d.kind = "nan"    -> Amount("NaNToInt", 0)
      [] d.kind = "snan"   -> Amount("InvalidOperation", 0)
      [] d.kind = "inf"    -> Amount("InvalidOperation", 0)
      [] OTHER ->
           IF d.coef # 0 /\ Len(NatText(d.coef)) + d.exp + 2 > DecimalPrec
           THEN Amount("InvalidOperation", 0)
           ELSE Amount("ok", QuantizeCents(d.neg, d.coef, d.exp + 2))

\* parse_amount_to_cents: kind is "ok" (cents is the result), "InvalidAmount"
\* (the ValueError("Invalid amount") of line 60), "NaNToInt" (the ValueError
\* int() raises on a NaN) or "InvalidOperation" (decimal.InvalidOperation, an
\* ArithmeticError, raised by the multiplication of a signalling NaN or by
\* quantize on an infinity or on a result of more than DecimalPrec digits).
parse_amount_to_cents(amount_str) == CentsOf(Decimal(amount_str))

\* The error kinds that are Python ValueErrors (what "except ValueError" catches).
IsValueError(kind) == kind \in {"InvalidAmount", "NaNToInt"}

\* cents_to_display: f"{cents / 100:.2f}".
DisplayOf(neg, mag) ==
    (IF neg THEN <<"-">> ELSE <<>>)
    \o NatText(mag \div 100) \o <<".">>
    \o <<Digits[((mag % 100) \div 10) + 1], Digits[(mag % 10) + 1]>>

cents_to_display_unpadded(cents) ==
    (IF cents < 0 THEN <<"-">> ELSE <<>>)
    \o NatText((IF cents < 0 THEN 0 - cents ELSE cents) \div 100) \o <<".">>
    \o NatText((IF cents < 0 THEN 0 - cents ELSE cents) % 100)

cents_to_display(cents) == DisplayOf(cents < 0, IF cents < 0 THEN 0 - cents ELSE cents)

(***************************************************************************)
(* Dates: datetime.strptime(text, "%Y-%m-%d").date()                       *)
(***************************************************************************)
DaysInMonth(y, m) == IF m = 2 THEN (IF (y % 4 = 0 /\ y % 100 # 0) \/ y % 400 = 0 THEN 29 ELSE 28)
                     ELSE IF m \in {4, 6, 9, 11} THEN 30 ELSE 31

MakeDate(y, m, d) == y * 10000 + m * 100 + d

DateValue(ok, date) == [ok |-> ok, date |-> date]

\* date(y, m, d): ValueError for a day the calendar does not have.
DateOf(y, m, d) ==
    IF y >= 1 /\ m \in 1..12 /\ d >= 1 /\ d <= DaysInMonth(y, m)
    THEN DateValue(TRUE, MakeDate(y, m, d))
    ELSE DateValue(FALSE, 0)

DateOfParts(ys, ms, ds) ==
    IF ~(AllDigits(ys) /\ AllDigits(ms) /\ AllDigits(ds)) THEN DateValue(FALSE, 0)
    ELSE IF ~(Len(ys) = 4 /\ Len(ms) \in {1, 2} /\ Len(ds) \in {1, 2}) THEN DateValue(FALSE, 0)
    ELSE DateOf(NatOf(ys), NatOf(ms), NatOf(ds))

\* ok is FALSE where strptime raises ValueError: the text is not
\* yyyy-m[m]-d[d], or names no day of the calendar.
ParseDate(text) ==
    IF IndexOf(text, "-") = 0 \/ IndexOf(After(text, "-"), "-") = 0 THEN DateValue(FALSE, 0)
    ELSE DateOfParts(Before(text, "-"), Before(After(text, "-"), "-"),
                     After(After(text, "-"), "-"))

\* date.isoformat()
RECURSIVE ZeroPad(_, _)
ZeroPad(s, n) == IF Len(s) >= n THEN s ELSE ZeroPad(<<"0">> \o s, n)

IsoFormat(date) == ZeroPad(NatText(date \div 10000), 4) \o <<"-">>
                   \o ZeroPad(NatText((date \div 100) % 100), 2) \o <<"-">>
                   \o ZeroPad(NatText(date % 100), 2)

\* date(today.year, today.month, 1) and date(today.year, 1, 1)
MonthStart(date) == MakeDate(date \div 10000, (date \div 100) % 100, 1)

YearStart(date) == MakeDate(date \div 10000, 1, 1)

(***************************************************************************)
(* Rows and queries                                                        *)
(***************************************************************************)
ROLE_ADMIN == "admin"

ROLE_USER == "user"

ROLE_READONLY == "readonly"

\* LIMIT of the listing query.
ListLimit == 500

Range(s) == {s[i] : i \in 1..Len(s)}

\* The sum of amount_cents over the rows of S whose ids lie in lo..hi, by
\* halving the range (a row's id is its own).
RECURSIVE SumBetween(_, _, _)
SumBetween(S, lo, hi) ==
    IF S = {} THEN 0
    ELSE IF lo = hi THEN (CHOOSE x \in S : TRUE).amount_cents
    ELSE SumBetween({x \in S : x.id <= (lo + hi) \div 2}, lo, (lo + hi) \div 2)
         + SumBetween({x \in S : x.id > (lo + hi) \div 2}, ((lo + hi) \div 2) + 1, hi)

\* coalesce(sum(amount_cents), 0) over a set of transaction rows
SumCents(S) == SumBetween(S, 1, Len(transactions))

\* The values an ORDER BY key takes lie between -KeyMax and KeyMax.
KeyMax == 1073741823

\* Every order of the rows S.
RECURSIVE AnyOrders(_)
AnyOrders(S) ==
    IF S = {} THEN {<<>>}
    ELSE UNION {{<<x>> \o r : r \in AnyOrders(S \ {x})} : x \in S}

\* The descending orders of the rows S, whose keys lie in lo..hi: the rows of
\* the upper half of the range before the rows of the lower half, rows of one
\* key in every order.
RECURSIVE DescBetween(_, _, _, _)
RECURSIVE DescSplit(_, _, _, _, _)
DescBetween(S, key, lo, hi) ==
    IF lo = hi \/ Cardinality(S) <= 1 THEN AnyOrders(S)
    ELSE DescSplit(S, key, lo, (lo + hi) \div 2, hi)

DescSplit(S, key, lo, mid, hi) ==
    {a \o b : a \in DescBetween({x \in S : key[x] > mid}, key, mid + 1, hi),
              b \in DescBetween({x \in S : key[x] <= mid}, key, lo, mid)}

\* ORDER BY key DESC over the rows S, key a function on S.  SQL leaves the order
\* of rows with equal keys open: every order that is descending is a result.
DescOrders(S, key) == DescBetween(S, key, 0 - KeyMax, KeyMax)

Limit(rows, n) == SubSeq(rows, 1, IF n <= Len(rows) THEN n ELSE Len(rows))

Organization(id, name) == [id |-> id, name |-> name]

User(id, org_id, name, email, password_hash, role) ==
    [id |-> id, org_id |-> org_id, name |-> name, email |-> email,
     password_hash |-> password_hash, role |-> role]

Account(id, org_id, name, type, currency) ==
    [id |-> id, org_id |-> org_id, name |-> name, type |-> type,
     currency |-> currency, balance_cents |-> 0]

Category(id, org_id, name, type) ==
    [id |-> id, org_id |-> org_id, name |-> name, type |-> type]

Transaction(id, org_id, user_id, account_id, category_id, amount_cents, type, occurred_at, note, tags) ==
    [id |-> id, org_id |-> org_id, user_id |-> user_id, account_id |-> account_id,
     category_id |-> category_id, amount_cents |-> amount_cents, type |-> type,
     occurred_at |-> occurred_at, note |-> note, tags |-> tags]

Budget(id, org_id, name, period, category_id, amount_cents, start_date, end_date) ==
    [id |-> id, org_id |-> org_id, name |-> name, period |-> period,
     category_id |-> category_id, amount_cents |-> amount_cents,
     start_date |-> start_date, end_date |-> end_date]

\* db.add of one row: the primary key is the next integer.
NextId(table) == Len(table) + 1

\* The row with this id (a relationship attribute such as tx.category).
RowById(table, id) == CHOOSE r \in Range(table) : r.id = id

\* app/auth.py: a hash that verify_password accepts for its own password only.
hash_password(password) == <<"hash", password>>

verify_password(password, password_hash) == password_hash = hash_password(password)

\* The query string of /transactions and /export: a text, or NULL when absent.
Query(start_date, end_date, category_id, account_id, min_amount, max_amount, q) ==
    [start_date |-> start_date, end_date |-> end_date, category_id |-> category_id,
     account_id |-> account_id, min_amount |-> min_amount,
     max_amount |-> max_amount, q |-> q]

NoQuery == Query(NULL, NULL, NULL, NULL, NULL, NULL, NULL)

\* A response: the status code, the exception class behind a 500 (error), the
\* redirect target (location), and the template context or CSV body.  With it
\* the model keeps what the request asked: its query string (query) and the
\* amount text of a posted form (amount).
Response(op, status) ==
    [op |-> op, status |-> status, error |-> "", location |-> "",
     query |-> NoQuery, amount |-> NULL, transactions |-> <<>>, csv |-> <<>>,
     income |-> <<>>, expense |-> <<>>, balance |-> <<>>,
     items |-> {}, summaries |-> <<>>,
     report |-> [month_income |-> <<>>, month_expense |-> <<>>, month_balance |-> <<>>,
                 year_income |-> <<>>, year_expense |-> <<>>, year_balance |-> <<>>,
                 category_breakdown |-> <<>>]]

Redirect(op, location) == [Response(op, 303) EXCEPT !.location = location]

\* raise HTTPException(status_code=403)
Forbidden(op) == [Response(op, 403) EXCEPT !.error = "HTTPException"]

\* An exception no handler catches: the server answers 500.
ServerError(op, error) == [Response(op, 500) EXCEPT !.error = error]

NoUser == User(0, 0, "", "", <<>>, "")

\* get_current_user: the session's user, NoUser for None.
get_current_user ==
    IF session = 0 THEN NoUser
    ELSE IF \E u \in Range(users) : u.id = session THEN RowById(users, session)
    ELSE NoUser

\* A require_role that lets every signed-in user pass.
require_role_open(user, allowed) == user.id # 0

\* require_role: TRUE where it returns, FALSE where it raises the 403.
require_role(user, allowed) == user.role \in allowed

(***************************************************************************)
(* The query engine of /transactions and /export                           *)
(***************************************************************************)
\* One optional predicate of a query: set when it was appended to the filters,
\* error the exception class that escaped while it was built ("" for none).
Filter(set, value, error) == [set |-> set, value |-> value, error |-> error]

Absent == Filter(FALSE, 0, "")

DateFilterOf_zero(parsed) ==
    IF parsed.ok THEN Filter(TRUE, parsed.date, "") ELSE Filter(TRUE, 0, "")

\* Lines 252-265 and 634-645: a date that does not parse is no filter.
DateFilterOf(parsed) == IF parsed.ok THEN Filter(TRUE, parsed.date, "") ELSE Absent

DateFilter(raw) == IF Truthy(raw) THEN DateFilterOf(ParseDate(raw)) ELSE Absent

\* Lines 266-269 and 646-649: int(text) raises ValueError outside any try.
IdFilterOf(parsed) == IF parsed.ok THEN Filter(TRUE, parsed.value, "")
                      ELSE Filter(FALSE, 0, "ValueError")

IdFilter(raw) == IF Truthy(raw) THEN IdFilterOf(IntParse(raw)) ELSE Absent

\* Lines 270-279: "except ValueError: pass" drops the bound; an exception of
\* another class escapes.
AmountFilterOf(parsed) ==
    IF parsed.kind = "ok" THEN Filter(TRUE, parsed.cents, "")
    ELSE IF IsValueError(parsed.kind) THEN Absent
    ELSE Filter(FALSE, 0, parsed.kind)

AmountFilter(raw) == IF Truthy(raw) THEN AmountFilterOf(parse_amount_to_cents(raw)) ELSE Absent

KeywordOf(raw) == IF Truthy(raw) THEN Filter(TRUE, Lower(raw), "") ELSE Filter(FALSE, <<>>, "")

\* The first exception in the order the code builds the filters.
RECURSIVE FirstError(_)
FirstError(fs) == IF fs = <<>> THEN ""
                  ELSE IF Head(fs).error # "" THEN Head(fs).error
                  ELSE FirstError(Tail(fs))

\* lower(coalesce(note, '')) LIKE %keyword% OR lower(coalesce(tags, '')) LIKE ...
KeywordMatch(t, pattern) ==
    \/ Like(Lower(Coalesce(t.note, <<>>)), pattern)
    \/ Like(Lower(Coalesce(t.tags, <<>>)), pattern)

\* transactions_list, lines 249-286: the filters list of a query string.
list_filters(q) ==
    [start_date  |-> DateFilter(q.start_date),
     end_date    |-> DateFilter(q.end_date),
     category_id |-> IdFilter(q.category_id),
     account_id  |-> IdFilter(q.account_id),
     min_amount  |-> AmountFilter(q.min_amount),
     max_amount  |-> AmountFilter(q.max_amount),
     keyword     |-> KeywordOf(q.q)]

list_error(F) == FirstError(<<F.category_id, F.account_id, F.min_amount, F.max_amount>>)

\* The filters joined with or_ in place of and_.
list_where_any(F, t) ==
    \/ F.start_date.set /\ t.occurred_at >= F.start_date.value
    \/ F.end_date.set /\ t.occurred_at <= F.end_date.value
    \/ F.category_id.set /\ t.category_id = F.category_id.value
    \/ F.account_id.set /\ t.account_id = F.account_id.value
    \/ F.min_amount.set /\ t.amount_cents >= F.min_amount.value
    \/ F.max_amount.set /\ t.amount_cents <= F.max_amount.value
    \/ F.keyword.set /\ KeywordMatch(t, <<"%">> \o F.keyword.value \o <<"%">>)
    \/ ~\E k \in DOMAIN F : F[k].set

\* Lines 288-289: and_(*filters) on one row.
list_where(F, t) ==
    /\ F.start_date.set => t.occurred_at >= F.start_date.value
    /\ F.end_date.set => t.occurred_at <= F.end_date.value
    /\ F.category_id.set => t.category_id = F.category_id.value
    /\ F.account_id.set => t.account_id = F.account_id.value
    /\ F.min_amount.set => t.amount_cents >= F.min_amount.value
    /\ F.max_amount.set => t.amount_cents <= F.max_amount.value
    /\ F.keyword.set => KeywordMatch(t, <<"%">> \o F.keyword.value \o <<"%">>)

\* The listing's query without the filter on the role user: every row of the
\* organization for every role.
list_query_unscoped(user) ==
    {t \in Range(transactions) : t.org_id = user.org_id}

\* Lines 245-247: the organization's rows, the actor's own for the role user.
list_query(user) ==
    {t \in Range(transactions) :
        /\ t.org_id = user.org_id
        /\ (user.role = ROLE_USER => t.user_id = user.id)}

\* Lines 293-302: the sum of one type over the filtered query S.
list_sum(S, type) == SumCents({t \in S : t.type = type})

\* Line 291: order_by(occurred_at.desc()).limit(500).all() over the filtered
\* query S, one result for each order the database may return.
list_page_ascending(S) ==
    {Limit(o, ListLimit) : o \in DescOrders(S, [t \in S |-> 0 - t.occurred_at])}

list_page(S) == {Limit(o, ListLimit) : o \in DescOrders(S, [t \in S |-> t.occurred_at])}

\* Lines 311-323: the template context.
list_context(rows, income, expense) ==
    [Response("transactions_list", 200) EXCEPT
        !.transactions = rows,
        !.income = cents_to_display(income),
        !.expense = cents_to_display(expense),
        !.balance = cents_to_display(income - expense)]

\* The sums taken over the rows of the page in place of the filtered query.
list_render_page(S) ==
    {list_context(rows, list_sum(Range(rows), "income"), list_sum(Range(rows), "expense")) :
        rows \in list_page(S)}

list_render(S) ==
    {list_context(rows, list_sum(S, "income"), list_sum(S, "expense")) :
        rows \in list_page(S)}

list_filtered(user, F) == {t \in list_query(user) : list_where(F, t)}

list_result(user, F) ==
    IF list_error(F) # "" THEN {ServerError("transactions_list", list_error(F))}
    ELSE list_render(list_filtered(user, F))

\* Every response transactions_list can give this actor for this query string.
list_responses(user, q) ==
    IF user.id = 0 THEN {Redirect("transactions_list", "/login")}
    ELSE list_result(user, list_filters(q))

\* export_csv, lines 634-656: the filters of the export.  The handler reads no
\* min_amount and no max_amount.
export_filters(q) ==
    [start_date  |-> DateFilter(q.start_date),
     end_date    |-> DateFilter(q.end_date),
     category_id |-> IdFilter(q.category_id),
     account_id  |-> IdFilter(q.account_id),
     keyword     |-> KeywordOf(q.q)]

export_error(F) == FirstError(<<F.category_id, F.account_id>>)

export_where(F, t) ==
    /\ F.start_date.set => t.occurred_at >= F.start_date.value
    /\ F.end_date.set => t.occurred_at <= F.end_date.value
    /\ F.category_id.set => t.category_id = F.category_id.value
    /\ F.account_id.set => t.account_id = F.account_id.value
    /\ F.keyword.set => KeywordMatch(t, <<"%">> \o F.keyword.value \o <<"%">>)

\* Lines 630-632.
export_query(user) ==
    {t \in Range(transactions) :
        /\ t.org_id = user.org_id
        /\ (user.role = ROLE_USER => t.user_id = user.id)}

HasRow(table, id) == \E r \in Range(table) : r.id = id

\* Lines 674-686: one CSV row of the export.
csv_row(tx) ==
    <<IsoFormat(tx.occurred_at), tx.type, cents_to_display(tx.amount_cents),
      RowById(categories, tx.category_id).name, RowById(accounts, tx.account_id).name,
      OrEmpty(tx.note), OrEmpty(tx.tags), RowById(users, tx.user_id).name>>

\* tx.category.name of a row whose category does not exist: None has no name.
export_body(rows) ==
    IF \E i \in 1..Len(rows) : ~HasRow(categories, rows[i].category_id)
                               \/ ~HasRow(accounts, rows[i].account_id)
    THEN ServerError("export_csv", "AttributeError")
    ELSE [Response("export_csv", 200) EXCEPT
            !.transactions = rows,
            !.csv = [i \in 1..Len(rows) |-> csv_row(rows[i])]]

\* Line 658: order_by(occurred_at.desc()).all() over the filtered query S.
export_render(S) ==
    {export_body(rows) : rows \in DescOrders(S, [t \in S |-> t.occurred_at])}

export_filtered(user, F) == {t \in export_query(user) : export_where(F, t)}

export_result(user, F) ==
    IF export_error(F) # "" THEN {ServerError("export_csv", export_error(F))}
    ELSE export_render(export_filtered(user, F))

\* Every response export_csv can give this actor for this query string.
export_responses(user, q) ==
    IF user.id = 0 THEN {Redirect("export_csv", "/login")}
    ELSE export_result(user, export_filters(q))

(***************************************************************************)
(* The initial state: the tables create_all leaves, no session             *)
(***************************************************************************)
Init ==
    /\ organizations = <<>>
    /\ users = <<>>
    /\ accounts = <<>>
    /\ categories = <<>>
    /\ transactions = <<>>
    /\ budgets = <<>>
    /\ session = 0
    /\ resp = Response("", 0)

\* date.today(): the day the requests are made.
Today == 20240510

\* What a writing handler does: its response and the rows it commits.
Outcome(response, added) == [resp |-> response, added |-> added]

(***************************************************************************)
(* Sessions and registration                                               *)
(***************************************************************************)
login_page ==
    /\ resp' = IF get_current_user.id # 0 THEN Redirect("login_page", "/")
               ELSE Response("login_page", 200)
    /\ UNCHANGED <<db, session>>

\* first() of the users with this e-mail
FirstUserByEmail(email) ==
    LET ids == {i \in 1..Len(users) : users[i].email = email}
    IN  IF ids = {} THEN NoUser
        ELSE users[CHOOSE i \in ids : \A j \in ids : i <= j]

login_as(user, password) ==
    IF user.id = 0 \/ ~verify_password(password, user.password_hash)
    THEN /\ resp' = [Response("login", 400) EXCEPT !.error = "Invalid credentials"]
         /\ session' = session
    ELSE /\ session' = user.id
         /\ resp' = Redirect("login", "/")

login(email, password) ==
    /\ login_as(FirstUserByEmail(email), password)
    /\ UNCHANGED db

logout ==
    /\ session' = 0
    /\ resp' = Redirect("logout", "/login")
    /\ UNCHANGED db

register_page ==
    /\ resp' = IF Len(users) > 0 THEN Response("register_page", 403)
               ELSE Response("register_page", 200)
    /\ UNCHANGED <<db, session>>

\* seed_defaults: the rows it adds to each table for a new organization.
default_categories(org_id, n) ==
    <<Category(n + 1, org_id, "Salary", "income"),
      Category(n + 2, org_id, "Bonus", "income"),
      Category(n + 3, org_id, "Food", "expense"),
      Category(n + 4, org_id, "Rent", "expense"),
      Category(n + 5, org_id, "Transport", "expense")>>

default_accounts(org_id, n) == <<Account(n + 1, org_id, "Cash", "cash", "CNY")>>

seed_categories(org_id, n) ==
    IF {c \in Range(categories) : c.org_id = org_id} = {}
    THEN default_categories(org_id, n)
    ELSE <<>>

seed_accounts(org_id) ==
    IF {a \in Range(accounts) : a.org_id = org_id} = {}
    THEN default_accounts(org_id, Len(accounts))
    ELSE <<>>

register_org(org, admin) ==
    /\ organizations' = Append(organizations, org)
    /\ users' = Append(users, admin)
    /\ categories' = categories \o seed_categories(org.id, Len(categories))
    /\ accounts' = accounts \o seed_accounts(org.id)
    /\ session' = admin.id
    /\ resp' = Redirect("register", "/")
    /\ UNCHANGED <<transactions, budgets>>

register_open(org_name, name, email, password) ==
    register_org(Organization(NextId(organizations), org_name),
                 User(NextId(users), NextId(organizations), name, email,
                      hash_password(password), ROLE_ADMIN))

register(org_name, name, email, password) ==
    IF Len(users) > 0
    THEN /\ resp' = Redirect("register", "/login")
         /\ UNCHANGED <<db, session>>
    ELSE register_org(Organization(NextId(organizations), org_name),
                      User(NextId(users), NextId(organizations), name, email,
                           hash_password(password), ROLE_ADMIN))

(***************************************************************************)
(* Transactions                                                            *)
(***************************************************************************)
transactions_list(q) ==
    /\ resp' \in {[r EXCEPT !.query = q] : r \in list_responses(get_current_user, q)}
    /\ UNCHANGED <<db, session>>

transaction_new_page ==
    /\ resp' = IF get_current_user.id = 0
               THEN Redirect("transaction_new_page", "/login")
               ELSE IF get_current_user.role = ROLE_READONLY
               THEN Forbidden("transaction_new_page")
               ELSE Response("transaction_new_page", 200)
    /\ UNCHANGED <<db, session>>

\* The handler taking a text Decimal() rejects for a zero amount: line 370
\* without its exception.
transaction_outcome_lenient(user, a, d, type, category_id, account_id, note, tags) ==
    IF user.id = 0
    THEN Outcome(Redirect("transaction_create", "/login"), <<>>)
    ELSE IF user.role = ROLE_READONLY
    THEN Outcome(Forbidden("transaction_create"), <<>>)
    ELSE IF ~d.ok
    THEN Outcome(ServerError("transaction_create", "ValueError"), <<>>)
    ELSE Outcome(Redirect("transaction_create", "/transactions"),
                 <<Transaction(NextId(transactions), user.org_id, user.id, account_id,
                               category_id, IF a.kind = "ok" THEN a.cents ELSE 0,
                               type, d.date, OrNone(note), OrNone(tags))>>)

\* The handler without the check of lines 367-368: a readonly actor goes on.
transaction_outcome_ungated(user, a, d, type, category_id, account_id, note, tags) ==
    IF user.id = 0
    THEN Outcome(Redirect("transaction_create", "/login"), <<>>)
    ELSE IF a.kind # "ok"
    THEN Outcome(ServerError("transaction_create", a.kind), <<>>)
    ELSE IF ~d.ok
    THEN Outcome(ServerError("transaction_create", "ValueError"), <<>>)
    ELSE Outcome(Redirect("transaction_create", "/transactions"),
                 <<Transaction(NextId(transactions), user.org_id, user.id, account_id,
                               category_id, a.cents, type, d.date,
                               OrNone(note), OrNone(tags))>>)

\* Lines 364-384 for the actor user, the parsed amount a and the parsed date d.
transaction_outcome_first_user(user, a, d, type, category_id, account_id, note, tags) ==
    IF user.id = 0
    THEN Outcome(Redirect("transaction_create", "/login"), <<>>)
    ELSE IF user.role = ROLE_READONLY
    THEN Outcome(Forbidden("transaction_create"), <<>>)
    ELSE IF a.kind # "ok"
    THEN Outcome(ServerError("transaction_create", a.kind), <<>>)
    ELSE IF ~d.ok
    THEN Outcome(ServerError("transaction_create", "ValueError"), <<>>)
    ELSE Outcome(Redirect("transaction_create", "/transactions"),
                 <<Transaction(NextId(transactions), users[1].org_id, users[1].id,
                               account_id, category_id, a.cents, type, d.date,
                               OrNone(note), OrNone(tags))>>)

transaction_outcome(user, a, d, type, category_id, account_id, note, tags) ==
    IF user.id = 0
    THEN Outcome(Redirect("transaction_create", "/login"), <<>>)
    ELSE IF user.role = ROLE_READONLY
    THEN Outcome(Forbidden("transaction_create"), <<>>)
    ELSE IF a.kind # "ok"
    THEN Outcome(ServerError("transaction_create", a.kind), <<>>)
    ELSE IF ~d.ok
    THEN Outcome(ServerError("transaction_create", "ValueError"), <<>>)
    ELSE Outcome(Redirect("transaction_create", "/transactions"),
                 <<Transaction(NextId(transactions), user.org_id, user.id, account_id,
                               category_id, a.cents, type, d.date,
                               OrNone(note), OrNone(tags))>>)

commit_transactions_replacing(out, amount) ==
    /\ resp' = [out.resp EXCEPT !.amount = amount]
    /\ transactions' = IF out.added = <<>> THEN transactions
                       ELSE [transactions EXCEPT ![1] = out.added[1]] \o out.added

commit_transactions(out, amount) ==
    /\ resp' = [out.resp EXCEPT !.amount = amount]
    /\ transactions' = transactions \o out.added

transaction_create(amount, type, occurred_at, category_id, account_id, note, tags) ==
    /\ commit_transactions(
         transaction_outcome(get_current_user, parse_amount_to_cents(amount),
                             ParseDate(occurred_at), type, category_id, account_id,
                             note, tags),
         amount)
    /\ UNCHANGED <<organizations, users, accounts, categories, budgets, session>>

export_csv(q) ==
    /\ resp' \in {[r EXCEPT !.query = q] : r \in export_responses(get_current_user, q)}
    /\ UNCHANGED <<db, session>>

(***************************************************************************)
(* Accounts, categories, users                                             *)
(***************************************************************************)
OrgRows(table, org_id) == {r \in Range(table) : r.org_id = org_id}

\* The three management pages: the organization's rows of one table.
admin_page(op, user, table) ==
    IF user.id = 0 THEN Redirect(op, "/login")
    ELSE IF ~require_role(user, {ROLE_ADMIN}) THEN Forbidden(op)
    ELSE [Response(op, 200) EXCEPT !.items = OrgRows(table, user.org_id)]

accounts_page ==
    /\ resp' = admin_page("accounts_page", get_current_user, accounts)
    /\ UNCHANGED <<db, session>>

\* The commit fails on uq_account_name_org with an IntegrityError.
accounts_outcome(user, name, type, currency) ==
    IF user.id = 0
    THEN Outcome(Redirect("accounts_create", "/login"), <<>>)
    ELSE IF ~require_role(user, {ROLE_ADMIN})
    THEN Outcome(Forbidden("accounts_create"), <<>>)
    ELSE IF \E a \in OrgRows(accounts, user.org_id) : a.name = name
    THEN Outcome(ServerError("accounts_create", "IntegrityError"), <<>>)
    ELSE Outcome(Redirect("accounts_create", "/accounts"),
                 <<Account(NextId(accounts), user.org_id, name, type, currency)>>)

commit_accounts(out) ==
    /\ resp' = out.resp
    /\ accounts' = accounts \o out.added

accounts_create(name, type, currency) ==
    /\ commit_accounts(accounts_outcome(get_current_user, name, type, currency))
    /\ UNCHANGED <<organizations, users, categories, transactions, budgets, session>>

categories_page ==
    /\ resp' = admin_page("categories_page", get_current_user, categories)
    /\ UNCHANGED <<db, session>>

\* The commit fails on uq_category_name_org with an IntegrityError.
categories_outcome(user, name, type) ==
    IF user.id = 0
    THEN Outcome(Redirect("categories_create", "/login"), <<>>)
    ELSE IF ~require_role(user, {ROLE_ADMIN})
    THEN Outcome(Forbidden("categories_create"), <<>>)
    ELSE IF \E c \in OrgRows(categories, user.org_id) : c.name = name /\ c.type = type
    THEN Outcome(ServerError("categories_create", "IntegrityError"), <<>>)
    ELSE Outcome(Redirect("categories_create", "/categories"),
                 <<Category(NextId(categories), user.org_id, name, type)>>)

commit_categories(out) ==
    /\ resp' = out.resp
    /\ categories' = categories \o out.added

categories_create(name, type) ==
    /\ commit_categories(categories_outcome(get_current_user, name, type))
    /\ UNCHANGED <<organizations, users, accounts, transactions, budgets, session>>

users_page ==
    /\ resp' = admin_page("users_page", get_current_user, users)
    /\ UNCHANGED <<db, session>>

\* The commit fails on uq_user_email_org with an IntegrityError.  The role is
\* stored as submitted.
users_outcome(user, name, email, role, password) ==
    IF user.id = 0
    THEN Outcome(Redirect("users_create", "/login"), <<>>)
    ELSE IF ~require_role(user, {ROLE_ADMIN})
    THEN Outcome(Forbidden("users_create"), <<>>)
    ELSE IF \E u \in OrgRows(users, user.org_id) : u.email = email
    THEN Outcome(ServerError("users_create", "IntegrityError"), <<>>)
    ELSE Outcome(Redirect("users_create", "/admin/users"),
                 <<User(NextId(users), user.org_id, name, email,
                        hash_password(password), role)>>)

commit_users(out) ==
    /\ resp' = out.resp
    /\ users' = users \o out.added

users_create(name, email, role, password) ==
    /\ commit_users(users_outcome(get_current_user, name, email, role, password))
    /\ UNCHANGED <<organizations, accounts, categories, transactions, budgets, session>>

(***************************************************************************)
(* Budgets                                                                 *)
(***************************************************************************)
\* "if budget.category_id": None and 0 are false.
CategorySet(category_id) == category_id # NoneInt /\ category_id # 0

budget_spent_own(user, budget) ==
    SumCents({t \in Range(transactions) :
                /\ t.org_id = user.org_id
                /\ t.user_id = user.id
                /\ t.type = "expense"
                /\ t.occurred_at >= budget.start_date
                /\ t.occurred_at <= budget.end_date
                /\ (CategorySet(budget.category_id)
                        => t.category_id = budget.category_id)})

\* budgets_page, lines 465-476: the spend of one budget.
budget_spent(user, budget) ==
    SumCents({t \in Range(transactions) :
                /\ t.org_id = user.org_id
                /\ t.type = "expense"
                /\ t.occurred_at >= budget.start_date
                /\ t.occurred_at <= budget.end_date
                /\ (CategorySet(budget.category_id)
                        => t.category_id = budget.category_id)})

budgets_context(user, rows) ==
    [Response("budgets_page", 200) EXCEPT
        !.items = OrgRows(categories, user.org_id),
        !.summaries = [i \in 1..Len(rows) |->
                          [budget |-> rows[i], spent |-> budget_spent(user, rows[i])]]]

\* order_by(Budget.id.desc()) over the organization's budgets B.
budgets_render(user, B) ==
    {budgets_context(user, rows) : rows \in DescOrders(B, [b \in B |-> b.id])}

budgets_page ==
    /\ resp' \in IF get_current_user.id = 0 THEN {Redirect("budgets_page", "/login")}
                 ELSE budgets_render(get_current_user,
                                     OrgRows(budgets, get_current_user.org_id))
    /\ UNCHANGED <<db, session>>

\* Lines 496-514 for the actor user, the parsed amount a and the parsed dates.
budgets_outcome(user, a, sd, ed, name, period, category_id) ==
    IF user.id = 0
    THEN Outcome(Redirect("budgets_create", "/login"), <<>>)
    ELSE IF user.role = ROLE_READONLY
    THEN Outcome(Forbidden("budgets_create"), <<>>)
    ELSE IF a.kind # "ok"
    THEN Outcome(ServerError("budgets_create", a.kind), <<>>)
    ELSE IF ~sd.ok \/ ~ed.ok
    THEN Outcome(ServerError("budgets_create", "ValueError"), <<>>)
    ELSE Outcome(Redirect("budgets_create", "/budgets"),
                 <<Budget(NextId(budgets), user.org_id, name, period, category_id,
                          a.cents, sd.date, ed.date)>>)

commit_budgets(out, amount) ==
    /\ resp' = [out.resp EXCEPT !.amount = amount]
    /\ budgets' = budgets \o out.added

budgets_create(name, period, amount, start_date, end_date, category_id) ==
    /\ commit_budgets(
         budgets_outcome(get_current_user, parse_amount_to_cents(amount),
                         ParseDate(start_date), ParseDate(end_date), name, period,
                         category_id),
         amount)
    /\ UNCHANGED <<organizations, users, accounts, categories, transactions, session>>

(***************************************************************************)
(* Dashboard and reports                                                   *)
(***************************************************************************)
\* dashboard, lines 98-100.
dashboard_query(user) ==
    {t \in Range(transactions) :
        /\ t.org_id = user.org_id
        /\ (user.role = ROLE_USER => t.user_id = user.id)}

\* Lines 102-113: the sum of one type since the first of the month.
dashboard_sum(user, type) ==
    SumCents({t \in dashboard_query(user) :
                t.occurred_at >= MonthStart(Today) /\ t.type = type})

\* Lines 118-129: the spend of one budget, as on the budgets page.
dashboard_spent(user, budget) ==
    SumCents({t \in Range(transactions) :
                /\ t.org_id = user.org_id
                /\ t.type = "expense"
                /\ t.occurred_at >= budget.start_date
                /\ t.occurred_at <= budget.end_date
                /\ (CategorySet(budget.category_id)
                        => t.category_id = budget.category_id)})

\* Lines 130-136: one entry of budget_summaries.
dashboard_summary(budget, spent) ==
    [budget |-> budget, spent |-> spent, remaining |-> budget.amount_cents - spent]

dashboard_context(user, rows, income, expense) ==
    [Response("dashboard", 200) EXCEPT
        !.income = cents_to_display(income),
        !.expense = cents_to_display(expense),
        !.balance = cents_to_display(income - expense),
        !.summaries = [i \in 1..Len(rows) |->
                          dashboard_summary(rows[i], dashboard_spent(user, rows[i]))]]

\* Line 115: the budgets come from a query with no ORDER BY, in any order.
dashboard_render(user, B) ==
    {dashboard_context(user, rows, dashboard_sum(user, "income"),
                       dashboard_sum(user, "expense")) :
        rows \in DescOrders(B, [b \in B |-> 0])}

dashboard ==
    /\ resp' \in IF get_current_user.id = 0 THEN {Redirect("dashboard", "/login")}
                 ELSE dashboard_render(get_current_user,
                                       OrgRows(budgets, get_current_user.org_id))
    /\ UNCHANGED <<db, session>>

\* reports_page, lines 527-529.
base_query(user) ==
    {t \in Range(transactions) :
        /\ t.org_id = user.org_id
        /\ (user.role = ROLE_USER => t.user_id = user.id)}

sum_for_range_after(user, start, type) ==
    SumCents({t \in base_query(user) : t.occurred_at > start /\ t.type = type})

\* sum_for_range, one of its two sums.
sum_for_range(user, start, type) ==
    SumCents({t \in base_query(user) : t.occurred_at >= start /\ t.type = type})

\* Lines 547-554: the transactions the category breakdown joins and filters.
breakdown_query(user) ==
    {t \in Range(transactions) :
        /\ HasRow(categories, t.category_id)
        /\ t.org_id = user.org_id
        /\ t.type = "expense"
        /\ t.occurred_at >= MonthStart(Today)}

CategoryName(t) == RowById(categories, t.category_id).name

\* Line 555: group_by(Category.name), one <<name, total>> per group of T.
breakdown_groups(T) ==
    {<<n, SumCents({t \in T : CategoryName(t) = n})>> : n \in {CategoryName(t) : t \in T}}

category_breakdown_unordered(user) == AnyOrders(breakdown_groups(breakdown_query(user)))

\* Line 556: ordered by the total descending (equal totals in any order).
category_breakdown(user) ==
    DescOrders(breakdown_groups(breakdown_query(user)),
               [g \in breakdown_groups(breakdown_query(user)) |-> g[2]])

reports_context(mi, me, yi, ye, breakdown) ==
    [Response("reports_page", 200) EXCEPT
        !.report = [month_income |-> cents_to_display(mi),
                    month_expense |-> cents_to_display(me),
                    month_balance |-> cents_to_display(mi - me),
                    year_income |-> cents_to_display(yi),
                    year_expense |-> cents_to_display(ye),
                    year_balance |-> cents_to_display(yi - ye),
                    category_breakdown |-> breakdown]]

reports_render(user) ==
    {reports_context(sum_for_range(user, MonthStart(Today), "income"),
                     sum_for_range(user, MonthStart(Today), "expense"),
                     sum_for_range(user, YearStart(Today), "income"),
                     sum_for_range(user, YearStart(Today), "expense"),
                     breakdown) :
        breakdown \in category_breakdown(user)}

reports_page ==
    /\ resp' \in IF get_current_user.id = 0 THEN {Redirect("reports_page", "/login")}
                 ELSE reports_render(get_current_user)
    /\ UNCHANGED <<db, session>>

(***************************************************************************)
(* The requests the environment makes                                      *)
(***************************************************************************)
MaxTx == 2

MaxBudgets == 1

\* The texts the requests carry.
Txt ==
    [a10_00 |-> <<"1", "0", ".", "0", "0">>,
     a50_00 |-> <<"5", "0", ".", "0", "0">>,
     a1000_00 |-> <<"1", "0", "0", "0", ".", "0", "0">>,
     a20 |-> <<"2", "0">>,
     a60 |-> <<"6", "0">>,
     abc |-> <<"a", "b", "c">>,
     Inf |-> <<"I", "n", "f">>,
     NaN |-> <<"N", "a", "N">>,
     neg5 |-> <<"-", "5">>,
     today |-> <<"2", "0", "2", "4", "-", "0", "5", "-", "1", "0">>,
     yesterday |-> <<"2", "0", "2", "4", "-", "0", "5", "-", "0", "9">>,
     last_month |-> <<"2", "0", "2", "4", "-", "0", "4", "-", "3", "0">>,
     month_start |-> <<"2", "0", "2", "4", "-", "0", "5", "-", "0", "1">>,
     month_end |-> <<"2", "0", "2", "4", "-", "0", "5", "-", "3", "1">>,
     no_date |-> <<"2", "0", "2", "4", "-", "1", "3", "-", "0", "1">>,
     coffee |-> <<"c", "o", "f", "f", "e", "e">>,
     Trip |-> <<"T", "r", "i", "p">>,
     trip |-> <<"t", "r", "i", "p">>,
     TRIP |-> <<"T", "R", "I", "P">>]

TxForm(amount, type, occurred_at, category_id, account_id, note, tags) ==
    [amount |-> amount, type |-> type, occurred_at |-> occurred_at,
     category_id |-> category_id, account_id |-> account_id, note |-> note, tags |-> tags]

\* The forms posted to /transactions/new: two that pass, and one for each way
\* the amount or the date fails.
TxForms ==
    {TxForm(Txt.a10_00, "expense", Txt.today, 3, 1, Txt.coffee, <<>>),
     TxForm(Txt.a50_00, "income", Txt.last_month, 1, 1, <<>>, Txt.Trip),
     TxForm(Txt.abc, "expense", Txt.today, 3, 1, <<>>, <<>>),
     TxForm(Txt.Inf, "expense", Txt.today, 3, 1, <<>>, <<>>),
     TxForm(Txt.NaN, "expense", Txt.today, 3, 1, <<>>, <<>>),
     TxForm(Txt.a10_00, "expense", Txt.no_date, 3, 1, <<>>, <<>>)}

BudgetForm(name, period, amount, start_date, end_date, category_id) ==
    [name |-> name, period |-> period, amount |-> amount, start_date |-> start_date,
     end_date |-> end_date, category_id |-> category_id]

BudgetForms ==
    {BudgetForm("Food", "monthly", Txt.a50_00, Txt.month_start, Txt.month_end, 3),
     BudgetForm("Bad", "monthly", Txt.abc, Txt.month_start, Txt.month_end, NoneInt),
     BudgetForm("Bad", "monthly", Txt.a20, Txt.no_date, Txt.month_end, NoneInt)}

Emails == {"a@x", "b@x"}

\* The query strings of Spec: none, and a category.
SpecQueries == {NoQuery, Query(NULL, NULL, <<"3">>, NULL, NULL, NULL, NULL)}

\* A posted form names rows that exist (the form's select offers those).
FormRefsExist(f) == HasRow(categories, f.category_id) /\ HasRow(accounts, f.account_id)

\* The response of a request that may have changed the rows or the session: a
\* redirect (every handler that commits or signs in answers 303), or none yet.
\* No handler reads resp, so the requests made after another response lead to
\* the states the same requests reach from the settled state with the same
\* rows and session: the specifications make requests in settled states only,
\* which leaves the reachable states as they are and the steps between them
\* fewer.
Settled == resp.status \in {0, 303}

Next ==
    \/ Settled /\ login_page
    \/ Settled /\ \E email \in Emails, password \in {"pw", "bad"} : login(email, password)
    \/ Settled /\ logout
    \/ Settled /\ register_page
    \/ Settled /\ register("Acme", "Admin", "a@x", "pw")
    \/ Settled /\ \E q \in SpecQueries : transactions_list(q)
    \/ Settled /\ transaction_new_page
    \/ /\ Settled
       /\ Len(transactions) < MaxTx
       /\ \E f \in TxForms :
            /\ FormRefsExist(f)
            /\ transaction_create(f.amount, f.type, f.occurred_at, f.category_id,
                                  f.account_id, f.note, f.tags)
    \/ Settled /\ \E q \in SpecQueries : export_csv(q)
    \/ Settled /\ accounts_page
    \/ Settled /\ accounts_create("Bank", "bank", "CNY")
    \/ Settled /\ categories_page
    \/ Settled /\ categories_create("Travel", "expense")
    \/ Settled /\ users_page
    \* the role texts: two of the roles and one other text
    \/ Settled /\ \E email \in Emails, role \in {"user", "readonly", "auditor"} :
                     users_create("User", email, role, "pw")
    \/ Settled /\ budgets_page
    \/ /\ Settled
       /\ Len(budgets) < MaxBudgets
       /\ \E f \in BudgetForms :
            budgets_create(f.name, f.period, f.amount, f.start_date, f.end_date,
                           f.category_id)
    \/ Settled /\ dashboard
    \/ Settled /\ reports_page

Spec == Init /\ [][Next]_vars

(***************************************************************************)
(* The filters: one admin, three transactions, every query string of up to *)
(* MaxFilters parameters                                                   *)
(***************************************************************************)
MaxQueryTx == 3

MaxFilters == 2

\* The amounts 10.00, 50.00 and 1000.00, on three days, in three categories
\* and two accounts.
QueryForms ==
    {TxForm(Txt.a10_00, "expense", Txt.today, 3, 1, Txt.coffee, <<>>),
     TxForm(Txt.a50_00, "income", Txt.last_month, 1, 1, <<>>, Txt.Trip),
     TxForm(Txt.a1000_00, "expense", Txt.yesterday, 4, 2, Txt.trip, <<>>)}

\* The query strings: for each parameter a text that parses and the texts
\* that do not.
Queries ==
    {q \in [start_date : {NULL, Txt.yesterday, Txt.no_date},
            end_date : {NULL, Txt.yesterday, Txt.no_date},
            category_id : {NULL, <<"3">>},
            account_id : {NULL, <<"2">>},
            min_amount : {NULL, Txt.a20, Txt.abc, Txt.Inf},
            max_amount : {NULL, Txt.a60, Txt.abc},
            q : {NULL, Txt.TRIP}] :
        Cardinality({k \in DOMAIN q : q[k] # NULL}) <= MaxFilters}

NextQuery ==
    \/ Settled /\ register("Acme", "Admin", "a@x", "pw")
    \/ Settled /\ accounts_create("Bank", "bank", "CNY")
    \/ /\ Settled
       /\ Len(transactions) < MaxQueryTx
       /\ \E f \in QueryForms :
            /\ FormRefsExist(f)
            /\ transaction_create(f.amount, f.type, f.occurred_at, f.category_id,
                                  f.account_id, f.note, f.tags)
    \/ Settled /\ \E q \in Queries : transactions_list(q)
    \/ Settled /\ \E q \in Queries : export_csv(q)

SpecQuery == Init /\ [][NextQuery]_vars

(***************************************************************************)
(* The dates: the same admin and transactions, every query string of a     *)
(* start date and an end date that parse or not, alone, with a category    *)
(* and with an amount that the decimal module refuses                      *)
(***************************************************************************)
NextDates ==
    \/ Settled /\ register("Acme", "Admin", "a@x", "pw")
    \/ Settled /\ accounts_create("Bank", "bank", "CNY")
    \/ /\ Settled
       /\ Len(transactions) < MaxQueryTx
       /\ \E f \in QueryForms :
            /\ FormRefsExist(f)
            /\ transaction_create(f.amount, f.type, f.occurred_at, f.category_id,
                                  f.account_id, f.note, f.tags)
    \/ /\ Settled
       /\ \E q \in [start_date : {NULL, Txt.yesterday, Txt.no_date},
                    end_date : {NULL, Txt.yesterday, Txt.no_date},
                    category_id : {NULL, <<"3">>}, account_id : {NULL},
                    min_amount : {NULL, Txt.Inf}, max_amount : {NULL}, q : {NULL}] :
            transactions_list(q) \/ export_csv(q)

SpecDates == Init /\ [][NextDates]_vars

(***************************************************************************)
(* The page limit: an organization holding one row less than a page, then  *)
(* up to MaxOver rows more than a page                                     *)
(***************************************************************************)
MaxOver == 1

\* The transactions already stored: one a day, expenses and incomes in turn.
HistoryRow(i) ==
    Transaction(i, 1, 1, 1, IF i % 2 = 0 THEN 1 ELSE 3, 100 + i,
                IF i % 2 = 0 THEN "income" ELSE "expense",
                MakeDate(2020 + ((i - 1) \div 336), 1 + (((i - 1) % 336) \div 28),
                         1 + ((i - 1) % 28)),
                NULL, NULL)

\* The state register and ListLimit - 1 transaction forms of the admin leave.
InitBulk ==
    /\ organizations = <<Organization(1, "Acme")>>
    /\ users = <<User(1, 1, "Admin", "a@x", hash_password("pw"), ROLE_ADMIN)>>
    /\ accounts = default_accounts(1, 0)
    /\ categories = default_categories(1, 0)
    /\ transactions = [i \in 1..(ListLimit - 1) |-> HistoryRow(i)]
    /\ budgets = <<>>
    /\ session = 1
    /\ resp = Response("", 0)

BulkForms ==
    {TxForm(Txt.a10_00, "expense", Txt.today, 3, 1, Txt.coffee, <<>>),
     TxForm(Txt.a50_00, "income", Txt.today, 1, 1, <<>>, Txt.Trip),
     TxForm(Txt.a1000_00, "expense", Txt.yesterday, 4, 1, Txt.trip, <<>>),
     TxForm(Txt.a20, "income", Txt.last_month, 2, 1, <<>>, <<>>)}

\* No filter; a bound below every amount; a bound above the stored history; a
\* category; a first day.
BulkQueries ==
    {NoQuery,
     Query(NULL, NULL, NULL, NULL, NULL, <<"0">>, NULL),
     Query(NULL, NULL, NULL, NULL, Txt.a20, NULL, NULL),
     Query(NULL, NULL, <<"3">>, NULL, NULL, NULL, NULL),
     Query(Txt.month_start, NULL, NULL, NULL, NULL, NULL, NULL)}

NextBulk ==
    \/ /\ Settled
       /\ Len(transactions) < ListLimit + MaxOver
       /\ \E f \in BulkForms :
            transaction_create(f.amount, f.type, f.occurred_at, f.category_id,
                               f.account_id, f.note, f.tags)
    \/ Settled /\ \E q \in BulkQueries : transactions_list(q)

SpecBulk == InitBulk /\ [][NextBulk]_vars

(***************************************************************************)
(* The budgets and the report: an admin, a user and a readonly member, up  *)
(* to MaxLedgerTx transactions around the first days of the month and of   *)
(* the year, up to MaxLedgerBudgets budgets                                *)
(***************************************************************************)
MaxLedgerTx == 2

MaxLedgerBudgets == 1

\* The state register and two forms of /admin/users leave.
InitLedger ==
    /\ organizations = <<Organization(1, "Acme")>>
    /\ users = <<User(1, 1, "Admin", "a@x", hash_password("pw"), ROLE_ADMIN),
                 User(2, 1, "User", "b@x", hash_password("pw"), ROLE_USER),
                 User(3, 1, "User", "c@x", hash_password("pw"), ROLE_READONLY)>>
    /\ accounts = default_accounts(1, 0)
    /\ categories = default_categories(1, 0)
    /\ transactions = <<>>
    /\ budgets = <<>>
    /\ session = 1
    /\ resp = Response("", 0)

\* Expenses on the first day, on a day and on the last day of the month, in
\* two categories, one of them with a minus sign; an income of the month; an
\* expense of the month before.
LedgerForms ==
    {TxForm(Txt.a10_00, "expense", Txt.today, 3, 1, Txt.coffee, <<>>),
     TxForm(Txt.a1000_00, "expense", Txt.month_start, 4, 1, <<>>, <<>>),
     TxForm(Txt.a50_00, "income", Txt.today, 1, 1, <<>>, <<>>),
     TxForm(Txt.neg5, "expense", Txt.month_end, 3, 1, <<>>, <<>>),
     TxForm(Txt.a20, "expense", Txt.last_month, 4, 1, <<>>, <<>>)}

NextLedger ==
    \/ Settled /\ \E email \in {"a@x", "b@x", "c@x"} : login(email, "pw")
    \/ /\ Settled
       /\ Len(transactions) < MaxLedgerTx
       /\ \E f \in LedgerForms :
            /\ FormRefsExist(f)
            /\ transaction_create(f.amount, f.type, f.occurred_at, f.category_id,
                                  f.account_id, f.note, f.tags)
    \/ /\ Settled
       /\ Len(budgets) < MaxLedgerBudgets
       /\ \E f \in {BudgetForm("Food", "monthly", Txt.a50_00, Txt.month_start,
                             Txt.month_end, 3),
                  BudgetForm("All", "monthly", Txt.a1000_00, Txt.month_start,
                             Txt.month_end, NoneInt)} :
            /\ f.category_id = NoneInt \/ HasRow(categories, f.category_id)
            /\ budgets_create(f.name, f.period, f.amount, f.start_date, f.end_date,
                              f.category_id)
    \/ Settled /\ budgets_page
    \/ Settled /\ dashboard
    \/ Settled /\ reports_page
    \/ Settled /\ \E date \in {MonthStart(Today), YearStart(Today)} :
                     transactions_list(Query(IsoFormat(date), NULL, NULL, NULL, NULL,
                                             NULL, NULL))

SpecLedger == InitLedger /\ [][NextLedger]_vars

(***************************************************************************)
(* Money shown and typed back: an income of every amount of MaxCents cents *)
(* or less, of either sign, and of some greater amounts; the listing shows *)
(* the sum, and the text it shows is posted as the amount of a new income  *)
(***************************************************************************)
MaxCents == 150

MaxAmountTx == 2

\* The state register and one transaction form of the admin leave.
InitAmount ==
    /\ organizations = <<Organization(1, "Acme")>>
    /\ users = <<User(1, 1, "Admin", "a@x", hash_password("pw"), ROLE_ADMIN)>>
    /\ accounts = default_accounts(1, 0)
    /\ categories = default_categories(1, 0)
    /\ \E c \in ((0 - MaxCents)..MaxCents) \cup {99999, 1234567, 99999999} :
          transactions = <<Transaction(1, 1, 1, 1, 1, c, "income", Today, NULL, NULL)>>
    /\ budgets = <<>>
    /\ session = 1
    /\ resp = Response("", 0)

NextAmount ==
    \/ Settled /\ transactions_list(NoQuery)
    \/ /\ resp.op = "transactions_list"
       /\ Len(transactions) < MaxAmountTx
       /\ transaction_create(resp.income, "income", Txt.today, 1, 1, <<>>, <<>>)

SpecAmount == InitAmount /\ [][NextAmount]_vars

(***************************************************************************)
(* Properties                                                              *)
(***************************************************************************)
\* The actor of the request whose response is in resp.  No read and no write of
\* rows changes the session, so after such a request it is the session's user.
Actor == get_current_user

\* The rows of the actor's organization.
OrgTransactions(user) == {t \in Range(transactions) : t.org_id = user.org_id}

\* The rows of the actor's organization the actor created.
OwnTransactions(user) == {t \in OrgTransactions(user) : t.user_id = user.id}

\* The rows the role lets the actor read (spec 4.2).
Visible(user) == IF user.role = ROLE_USER THEN OwnTransactions(user)
                 ELSE OrgTransactions(user)

Listed == resp.op = "transactions_list" /\ resp.status = 200

\* C1: a listing answered to an actor of role user holds only rows that actor
\* created; a listing with no filter answered to an admin or a readonly actor
\* holds every row of the organization (while they fit the page).
C1_ListingScope ==
    Listed =>
        /\ Actor.role = ROLE_USER =>
              \A t \in Range(resp.transactions) :
                  t.user_id = Actor.id /\ t.org_id = Actor.org_id
        /\ (Actor.role \in {ROLE_ADMIN, ROLE_READONLY} /\ resp.query = NoQuery
               /\ Len(transactions) <= ListLimit) =>
              Range(resp.transactions) = OrgTransactions(Actor)

\* A user-role actor lists its rows while another user's row is stored.
C1_Witness ==
    /\ Listed
    /\ Actor.role = ROLE_USER
    /\ resp.query = NoQuery
    /\ Len(resp.transactions) = 1
    /\ OrgTransactions(Actor) \ OwnTransactions(Actor) # {}

\* The sum a page shows for the rows T of one type dated start or later.
ShownSum(T, start, type) ==
    cents_to_display(SumCents({t \in T : t.occurred_at >= start /\ t.type = type}))

\* The category totals of the month's expenses among the rows T.
MonthExpenses(T) ==
    {t \in T : t.type = "expense" /\ t.occurred_at >= MonthStart(Today)
               /\ HasRow(categories, t.category_id)}

ScopedListing ==
    Listed =>
        /\ Range(resp.transactions) \subseteq Visible(Actor)
        /\ resp.query = NoQuery =>
              /\ resp.income = ShownSum(Visible(Actor), 0, "income")
              /\ resp.expense = ShownSum(Visible(Actor), 0, "expense")

ScopedExport ==
    (resp.op = "export_csv" /\ resp.status = 200) =>
        Range(resp.transactions) \subseteq Visible(Actor)

ScopedDashboard ==
    (resp.op = "dashboard" /\ resp.status = 200) =>
        /\ resp.income = ShownSum(Visible(Actor), MonthStart(Today), "income")
        /\ resp.expense = ShownSum(Visible(Actor), MonthStart(Today), "expense")

ScopedReportSums ==
    (resp.op = "reports_page" /\ resp.status = 200) =>
        /\ resp.report.month_income = ShownSum(Visible(Actor), MonthStart(Today), "income")
        /\ resp.report.month_expense = ShownSum(Visible(Actor), MonthStart(Today), "expense")
        /\ resp.report.year_income = ShownSum(Visible(Actor), YearStart(Today), "income")
        /\ resp.report.year_expense = ShownSum(Visible(Actor), YearStart(Today), "expense")

ScopedReportBreakdown ==
    (resp.op = "reports_page" /\ resp.status = 200) =>
        Range(resp.report.category_breakdown)
            = breakdown_groups(MonthExpenses(Visible(Actor)))

\* C2: the listing, the export, the dashboard's month summary, the report's
\* sums and the report's category breakdown are all computed from the rows the
\* actor's role lets it read: its own rows for the role user, the
\* organization's rows for the others.
C2_ScopedEverywhere ==
    /\ ScopedListing
    /\ ScopedExport
    /\ ScopedDashboard
    /\ ScopedReportSums
    /\ ScopedReportBreakdown

\* C3: a request of a readonly actor to create a transaction is answered 403
\* and leaves the stored transactions as they were.
C3_ReadonlyCannotCreate ==
    [][(Actor.role = ROLE_READONLY /\ resp'.op = "transaction_create")
          => (resp'.status = 403 /\ transactions' = transactions)]_vars

\* A readonly actor has posted a transaction form with a good amount.
C3_Witness ==
    /\ Actor.role = ROLE_READONLY
    /\ resp.op = "transaction_create"
    /\ resp.amount = Txt.a10_00
    /\ resp.status = 403

\* C4: creating a transaction or a budget is open to the roles admin and user
\* only: for every signed-in actor of another role, whatever role text the
\* actor was created with, the request is answered 403 and stores nothing.
C4_CreationByAdminAndUserOnly ==
    [][(resp'.op \in {"transaction_create", "budgets_create"}
          /\ Actor.id # 0 /\ Actor.role \notin {ROLE_ADMIN, ROLE_USER})
          => (resp'.status = 403 /\ transactions' = transactions
              /\ budgets' = budgets)]_vars

ManagementOps == {"accounts_page", "accounts_create", "categories_page",
                  "categories_create", "users_page", "users_create"}

\* C5: the pages and the forms that manage accounts, categories and users
\* answer 403 to every signed-in actor who is not an admin and store nothing;
\* only an admin's request is served or stores a row.
C5_ManagementAdminOnly ==
    [][resp'.op \in ManagementOps =>
          /\ (Actor.id # 0 /\ Actor.role # ROLE_ADMIN) =>
                /\ resp'.status = 403
                /\ UNCHANGED <<accounts, categories, users>>
          /\ (resp'.status = 200 \/ accounts' # accounts
                \/ categories' # categories \/ users' # users) =>
                Actor.role = ROLE_ADMIN]_vars

\* An actor of role user was refused the creation of an account.
C5_Witness ==
    /\ Actor.role = ROLE_USER
    /\ resp.op = "accounts_create"
    /\ resp.status = 403

CreateOps == {"transaction_create", "budgets_create"}

\* C10: a transaction form or a budget form whose amount text does not parse
\* stores nothing; when the text is no decimal numeral the request of an actor
\* allowed to create ends with the error InvalidAmount.
C10_InvalidAmountRejected ==
    [][(resp'.op \in CreateOps /\ parse_amount_to_cents(resp'.amount).kind # "ok") =>
          /\ transactions' = transactions
          /\ budgets' = budgets
          /\ (Actor.id # 0 /\ Actor.role # ROLE_READONLY
                /\ Decimal(resp'.amount).kind = "syntax") =>
                (resp'.status = 500 /\ resp'.error = "InvalidAmount")]_vars

\* An actor allowed to create has posted a transaction form whose amount is
\* abc while a transaction is stored.
C10_Witness ==
    /\ Actor.id # 0
    /\ Actor.role # ROLE_READONLY
    /\ resp.op = "transaction_create"
    /\ resp.amount = Txt.abc
    /\ resp.error = "InvalidAmount"
    /\ Len(transactions) > 0

DateGiven(text) == Truthy(text) /\ ParseDate(text).ok

AmountGiven(text) == Truthy(text) /\ parse_amount_to_cents(text).kind = "ok"

\* s holds k as a substring.
Contains(s, k) == \E i \in 0..(Len(s) - Len(k)) : SubSeq(s, i + 1, i + Len(k)) = k

\* The row t satisfies every predicate the query string q supplies.
Satisfies(q, t) ==
    /\ DateGiven(q.start_date) => t.occurred_at >= ParseDate(q.start_date).date
    /\ DateGiven(q.end_date) => t.occurred_at <= ParseDate(q.end_date).date
    /\ Truthy(q.category_id) => t.category_id = IntParse(q.category_id).value
    /\ Truthy(q.account_id) => t.account_id = IntParse(q.account_id).value
    /\ AmountGiven(q.min_amount) => t.amount_cents >= parse_amount_to_cents(q.min_amount).cents
    /\ AmountGiven(q.max_amount) => t.amount_cents <= parse_amount_to_cents(q.max_amount).cents
    /\ Truthy(q.q) =>
          \/ Contains(Lower(Coalesce(t.note, <<>>)), Lower(q.q))
          \/ Contains(Lower(Coalesce(t.tags, <<>>)), Lower(q.q))

Between20And60 == Query(NULL, NULL, NULL, NULL, Txt.a20, Txt.a60, NULL)

\* C8: the rows a listing returns are the rows the actor may read that satisfy
\* every predicate the query string supplies; with min 20 and max 60 over the
\* amounts 10.00, 50.00 and 1000.00 the listing returns the 50.00 row alone.
C8_FilterIsConjunction ==
    (Listed /\ Len(transactions) <= ListLimit) =>
        /\ Range(resp.transactions) = {t \in Visible(Actor) : Satisfies(resp.query, t)}
        /\ (resp.query = Between20And60
              /\ {t.amount_cents : t \in Visible(Actor)} = {1000, 5000, 100000}) =>
              {t.amount_cents : t \in Range(resp.transactions)} = {5000}

\* The listing with min 20 and max 60 over the three amounts.
C8_Witness ==
    /\ Listed
    /\ resp.query = Between20And60
    /\ {t.amount_cents : t \in Range(transactions)} = {1000, 5000, 100000}
    /\ Len(resp.transactions) = 1

DateFails(text) == Truthy(text) /\ ~ParseDate(text).ok

AmountFails(text) == Truthy(text) /\ parse_amount_to_cents(text).kind # "ok"

\* The query string q without the date and amount texts that fail to parse.
Dropped(q) ==
    [q EXCEPT !.start_date = IF DateFails(@) THEN NULL ELSE @,
              !.end_date = IF DateFails(@) THEN NULL ELSE @,
              !.min_amount = IF AmountFails(@) THEN NULL ELSE @,
              !.max_amount = IF AmountFails(@) THEN NULL ELSE @]

\* C9: a listing whose query string holds a date or an amount that fails to
\* parse is answered, and with a result of the same query without the failing
\* texts.
C9_ParseErrorDropsFilter ==
    (resp.op = "transactions_list" /\ Actor.id # 0
       /\ Dropped(resp.query) # resp.query) =>
        /\ resp.status = 200
        /\ [resp EXCEPT !.query = NoQuery] \in list_responses(Actor, Dropped(resp.query))

\* C6: the rows an export holds are the rows the listing's filter keeps for
\* the same actor and query string, all of them.
C6_ExportFiltersAsListing ==
    (resp.op = "export_csv" /\ resp.status = 200
       /\ list_error(list_filters(resp.query)) = "") =>
        /\ Range(resp.transactions) = list_filtered(Actor, list_filters(resp.query))
        /\ Len(resp.transactions) = Cardinality(list_filtered(Actor, list_filters(resp.query)))

\* The rows the actor may read that satisfy the query string of the response.
Matching == {t \in Visible(Actor) : Satisfies(resp.query, t)}

\* C7: the income and the expense a listing shows are the sums of amount_cents
\* over all the rows the actor may read that satisfy the query string, of the
\* type income and of the type expense, also when the page holds fewer rows;
\* they are 0.00 when no row matches.
C7_SumsOverFullSet ==
    Listed =>
        /\ resp.income = cents_to_display(SumCents({t \in Matching : t.type = "income"}))
        /\ resp.expense = cents_to_display(SumCents({t \in Matching : t.type = "expense"}))
        /\ Matching = {} =>
              /\ resp.income = <<"0", ".", "0", "0">>
              /\ resp.expense = <<"0", ".", "0", "0">>

\* A listing of more matching rows than the page holds.
C7_Witness ==
    /\ Listed
    /\ Cardinality(Matching) > ListLimit
    /\ Len(resp.transactions) = ListLimit

\* The expenses a budget counts: those of its organization, of every user,
\* dated from its first day to its last, of its category when it has one.
BudgetExpenses(budget) ==
    {t \in Range(transactions) :
        /\ t.org_id = budget.org_id
        /\ t.type = "expense"
        /\ budget.start_date <= t.occurred_at
        /\ t.occurred_at <= budget.end_date
        /\ budget.category_id # NoneInt => t.category_id = budget.category_id}

C12_AmountsNonNegative == \A t \in Range(transactions) : t.amount_cents >= 0

\* The query string of a listing with a start date and no other parameter.
Since(date) == Query(IsoFormat(date), NULL, NULL, NULL, NULL, NULL, NULL)

\* C13: for every actor, the balance (income sum less expense sum) of the
\* listing whose only parameter is the first day of the month as start date is
\* the month balance of the report, and with the first of January it is the
\* year balance of the report.
C13_ListingBalanceIsReportBalance ==
    /\ (Listed /\ resp.query = Since(MonthStart(Today))) =>
          \A r \in reports_render(Actor) : resp.balance = r.report.month_balance
    /\ (Listed /\ resp.query = Since(YearStart(Today))) =>
          \A r \in reports_render(Actor) : resp.balance = r.report.year_balance
    /\ (resp.op = "reports_page" /\ resp.status = 200) =>
          /\ \A l \in list_responses(Actor, Since(MonthStart(Today))) :
                l.balance = resp.report.month_balance
          /\ \A l \in list_responses(Actor, Since(YearStart(Today))) :
                l.balance = resp.report.year_balance

\* The listing since the first of the month, of an actor of role user who
\* spent 1000.00 on that day while a row of the month before is stored: the
\* balance is -1000.00.
C13_Witness ==
    /\ Listed
    /\ Actor.role = ROLE_USER
    /\ resp.query = Since(MonthStart(Today))
    /\ resp.balance = cents_to_display(0 - 100000)
    /\ \E t \in OwnTransactions(Actor) : t.occurred_at = MonthStart(Today)
    /\ \E t \in Range(transactions) : t.occurred_at < MonthStart(Today)

\* The expenses of the actor's organization dated the first of the month or
\* later whose category has the name n.
MonthExpensesOf(n) ==
    {t \in OrgTransactions(Actor) :
        /\ t.type = "expense"
        /\ t.occurred_at >= MonthStart(Today)
        /\ \E c \in Range(categories) : c.id = t.category_id /\ c.name = n}

\* C14: the category breakdown of the report has one entry for each category
\* name with an expense dated the first of the month or later, its total the
\* sum of amount_cents over those expenses, no entry for any other category,
\* and no entry before one of a greater total.
C14_CategoryBreakdown ==
    (resp.op = "reports_page" /\ resp.status = 200) =>
        /\ {g[1] : g \in Range(resp.report.category_breakdown)}
              = {c.name : c \in {c \in Range(categories) : MonthExpensesOf(c.name) # {}}}
        /\ \A i, j \in DOMAIN resp.report.category_breakdown :
              /\ i # j => resp.report.category_breakdown[i][1]
                             # resp.report.category_breakdown[j][1]
              /\ i < j => resp.report.category_breakdown[i][2]
                             >= resp.report.category_breakdown[j][2]
        /\ \A g \in Range(resp.report.category_breakdown) :
              g[2] = SumCents(MonthExpensesOf(g[1]))

\* The report of an organization that spent 10.00 on Food and 1000.00 on Rent
\* this month: Rent comes first, and the three other categories have no entry.
C14_Witness ==
    /\ resp.op = "reports_page"
    /\ resp.report.category_breakdown = <<<<"Rent", 100000>>, <<"Food", 1000>>>>
    /\ Len(categories) = 5

\* C15: a listing returns rows the actor may read that satisfy the query
\* string, each once and none before a row of a later occurred_at; no row it
\* leaves out is later than a row it returns; it returns ListLimit rows when
\* more match and every matching row otherwise.
C15_ListingOrderAndLimit ==
    Listed =>
        /\ Range(resp.transactions) \subseteq Matching
        /\ Len(resp.transactions) = Cardinality(Range(resp.transactions))
        /\ \A i \in 1..(Len(resp.transactions) - 1) :
              resp.transactions[i].occurred_at >= resp.transactions[i + 1].occurred_at
        /\ \A t \in Matching \ Range(resp.transactions) :
              \A i \in DOMAIN resp.transactions :
                  resp.transactions[i].occurred_at >= t.occurred_at
        /\ Len(resp.transactions) = IF Cardinality(Matching) > ListLimit THEN ListLimit
                                    ELSE Cardinality(Matching)

\* A listing with no filter of one row more than the page holds: the row left
\* out is the earliest, and the page begins with a row added last.
C15_Witness ==
    /\ Listed
    /\ resp.query = NoQuery
    /\ Cardinality(Matching) = ListLimit + 1
    /\ Matching \ Range(resp.transactions) = {transactions[1]}
    /\ resp.transactions[1].id > ListLimit - 1

\* Every row of the table before the step is in the table after it, at its
\* place and with its field values.
Kept(old, new) == Len(new) >= Len(old) /\ SubSeq(new, 1, Len(old)) = old

\* C16: no step deletes or changes a transaction, an account, a category or a
\* budget: every such row stays as it was stored; a table changes only by the
\* rows its creation form adds, and the accounts and the categories also by
\* the rows registration seeds.
C16_RowsNeverChange ==
    [][/\ Kept(transactions, transactions')
       /\ Kept(accounts, accounts')
       /\ Kept(categories, categories')
       /\ Kept(budgets, budgets')
       /\ transactions' # transactions => resp'.op = "transaction_create"
       /\ budgets' # budgets => resp'.op = "budgets_create"
       /\ accounts' # accounts => resp'.op \in {"accounts_create", "register"}
       /\ categories' # categories => resp'.op \in {"categories_create", "register"}]_vars

\* Two transactions, a budget, an account and a category were added after the
\* rows registration seeded, the first transaction as it was stored.
C16_Witness ==
    /\ Len(transactions) = 2
    /\ transactions[1].id = 1
    /\ Len(budgets) = 1
    /\ Len(accounts) = 2
    /\ Len(categories) = 6

\* text is digits, a point and two digits, and reads as mag hundredths.
IsHundredths(text, mag) ==
    /\ Len(text) >= 4
    /\ text[Len(text) - 2] = "."
    /\ AllDigits(SubSeq(text, 1, Len(text) - 3))
    /\ AllDigits(SubSeq(text, Len(text) - 1, Len(text)))
    /\ (Len(text) > 4 => text[1] # "0")
    /\ 100 * NatOf(SubSeq(text, 1, Len(text) - 3))
          + NatOf(SubSeq(text, Len(text) - 1, Len(text))) = mag

\* text is the decimal text of c / 100 with two fractional digits.
IsDisplayOf(text, c) ==
    IF c < 0 THEN Len(text) > 0 /\ Head(text) = "-" /\ IsHundredths(Tail(text), 0 - c)
    ELSE IsHundredths(text, c)

\* C17: the text shown for c cents is the decimal text of c / 100 with two
\* fractional digits, and the parser reads it back as c cents: the income a
\* listing shows parses to the sum it was formatted from, and the transaction
\* stored from that text has that sum as its amount_cents.
C17_ParseInvertsDisplay ==
    /\ Listed =>
          /\ IsDisplayOf(resp.income, SumCents(Range(transactions)))
          /\ parse_amount_to_cents(resp.income)
                = Amount("ok", SumCents(Range(transactions)))
    /\ resp.op = "transaction_create" =>
          /\ resp.status = 303
          /\ transactions[Len(transactions)].amount_cents
                = SumCents({t \in Range(transactions) : t.id < Len(transactions)})

\* The income of 105 cents was shown as 1.05 and posted back: the second
\* transaction has 105 cents too.
C17_Witness ==
    /\ resp.op = "transaction_create"
    /\ resp.amount = <<"1", ".", "0", "5">>
    /\ transactions[1].amount_cents = 105
    /\ transactions[2].amount_cents = 105

\* The query string q without the date texts that fail to parse.
DatesDropped(q) ==
    [q EXCEPT !.start_date = IF DateFails(@) THEN NULL ELSE @,
              !.end_date = IF DateFails(@) THEN NULL ELSE @]

\* The rows the handler of the response in resp keeps for the query string q,
\* and the exception it raises for it ("" when none).
RowsFor(q) ==
    IF resp.op = "export_csv" THEN export_filtered(Actor, export_filters(q))
    ELSE list_filtered(Actor, list_filters(q))

ErrorFor(q) ==
    IF resp.op = "export_csv" THEN export_error(export_filters(q))
    ELSE list_error(list_filters(q))

\* C18: a listing or an export whose start date or end date fails to parse is
\* answered as the same request without that date is: with the status 200 and
\* the rows (and, in a listing, the sums) of that request, or with its error
\* when that request fails; it is answered 200 when no amount text of the
\* request fails.
C18_MalformedDateIsAbsent ==
    (resp.op \in {"transactions_list", "export_csv"} /\ Actor.id # 0
       /\ DatesDropped(resp.query) # resp.query) =>
        /\ IF ErrorFor(DatesDropped(resp.query)) # ""
           THEN resp.status = 500 /\ resp.error = ErrorFor(DatesDropped(resp.query))
           ELSE /\ resp.status = 200
                /\ Range(resp.transactions) = RowsFor(DatesDropped(resp.query))
                /\ Len(resp.transactions) = Cardinality(RowsFor(DatesDropped(resp.query)))
                /\ resp.op = "transactions_list" =>
                      /\ resp.income = cents_to_display(
                            list_sum(RowsFor(DatesDropped(resp.query)), "income"))
                      /\ resp.expense = cents_to_display(
                            list_sum(RowsFor(DatesDropped(resp.query)), "expense"))
        /\ (~AmountFails(resp.query.min_amount) /\ ~AmountFails(resp.query.max_amount))
              => resp.status = 200

\* An export up to the month 13 while three transactions are stored: it holds
\* the three.
C18_Witness ==
    /\ resp.op = "export_csv"
    /\ resp.status = 200
    /\ resp.query.end_date = Txt.no_date
    /\ resp.query.start_date = NULL
    /\ Len(transactions) = 3
    /\ Len(resp.transactions) = 3

\* C19: registration is open only while there is no user: a registration
\* request made when a user exists adds no organization and no user, the one
\* made when none exists adds one organization and its admin; so there is at
\* most one organization at any time and every user belongs to it.
C19_SingleOrganization ==
    /\ [](/\ Len(organizations) <= 1
          /\ \A u \in Range(users) : \E o \in Range(organizations) : u.org_id = o.id)
    /\ [][resp'.op = "register" =>
            IF Len(users) > 0
            THEN organizations' = organizations /\ users' = users
            ELSE /\ Len(organizations') = Len(organizations) + 1
                 /\ Len(users') = 1
                 /\ users'[1].role = ROLE_ADMIN]_vars
    /\ [][organizations' # organizations => resp'.op = "register"]_vars

\* A registration request was made while the organization had two users: it
\* was sent to the sign-in page, with the organization and the users as before.
C19_Witness ==
    /\ resp.op = "register"
    /\ resp.location = "/login"
    /\ Len(organizations) = 1
    /\ Len(users) = 2
    /\ \A u \in Range(users) : u.org_id = organizations[1].id

\* C20: every row a transaction form stores has the org_id and the user_id of
\* the signed-in actor who posted it; a form posted with no signed-in actor
\* stores nothing; so every stored transaction is under a user and under that
\* user's organization.
C20_StoredUnderActor ==
    /\ [][resp'.op = "transaction_create" =>
            /\ Actor.id = 0 => transactions' = transactions
            /\ \A i \in (Len(transactions) + 1)..Len(transactions') :
                  /\ Actor.id # 0
                  /\ transactions'[i].user_id = Actor.id
                  /\ transactions'[i].org_id = Actor.org_id]_vars
    /\ [](\A t \in Range(transactions) :
             \E u \in Range(users) : u.id = t.user_id /\ u.org_id = t.org_id)

\* The second user has stored a transaction after the admin stored one.
C20_Witness ==
    /\ resp.op = "transaction_create"
    /\ resp.status = 303
    /\ Actor.id = 2
    /\ Len(transactions) = 2
    /\ transactions[1].user_id = 1
    /\ transactions[2].user_id = 2
    /\ transactions[2].org_id = Actor.org_id

====
